---------------------------- MODULE Spec2Model ----------------------------
(***************************************************************************)
(* A model of c4 (src/c4_annotated.c): the lexer next(), the expression    *)
(* parser/emitter expr(), the statement parser stmt(), the declaration     *)
(* loop of main() and the stack VM at the end of main().                   *)
(*                                                                         *)
(* The compiler's globals are the fields of the record cs; the VM's        *)
(* registers and memory are the fields of the record vm.  The source       *)
(* functions are operators on these records, applied by the actions.       *)
(***************************************************************************)
EXTENDS Integers, Sequences, FiniteSets, TLC

VARIABLES
    cs,      \* the compiler's globals: p, tk, ival, id, sym, e, data, ty, loc, ...
    vm,      \* the VM registers pc, sp, bp, a, cycle, and the memory it writes
    phase,   \* where main() is: "seed", "top", "decl", "named", "body", "run",
             \* "exit"
    obs      \* history of what the run did, for stating the properties

vars == <<cs, vm, phase, obs>>

-----------------------------------------------------------------------------
(* Token classes: src/c4_annotated.c lines 42-53.                          *)
Num == 128
Fun == 129
Sys == 130
Glo == 131
Loc == 132
Id == 133
Char == 134
Else == 135
Enum == 136
If == 137
IntKw == 138
Return == 139
Sizeof == 140
While == 141
Assign == 142
Cond == 143
Lor == 144
Lan == 145
Or == 146
Xor == 147
And == 148
Eq == 149
Ne == 150
Lt == 151
Gt == 152
Le == 153
Ge == 154
Shl == 155
Shr == 156
Add == 157
Sub == 158
Mul == 159
Div == 160
Mod == 161
Inc == 162
Dec == 163
Brak == 164

(* Opcodes: lines 57-66.                                                   *)
LEA == 0
IMM == 1
JMP == 2
JSR == 3
BZ == 4
BNZ == 5
ENT == 6
ADJ == 7
LEV == 8
LI == 9
LC == 10
SI == 11
SC == 12
PSH == 13
OR == 14
XOR == 15
AND == 16
EQ == 17
NE == 18
LT == 19
GT == 20
LE == 21
GE == 22
SHL == 23
SHR == 24
ADD == 25
SUB == 26
MUL == 27
DIV == 28
MOD == 29
OPEN == 30
READ == 31
CLOS == 32
PRTF == 33
MALC == 34
FREE == 35
MSET == 36
MCMP == 37
EXIT == 38

(* Types: line 70.                                                         *)
CHAR == 0
INT == 1
PTR == 2

(* sizeof(int) under "#define int long long" (line 20), and sizeof(char).  *)
SizeofInt == 8
SizeofChar == 1

(* The multiplier of the identifier hash (line 138) and the shift that     *)
(* folds the length into it (line 141), as a factor.                       *)
HashMul == 147
HashShift == 64

(* The arenas of lines 461-465: poolsz bytes each.  Where malloc puts      *)
(* them is the host's choice; here they follow each other.                 *)
PoolSz == 256 * 1024
TextBase == PoolSz
DataBase == 2 * PoolSz
StackBase == 3 * PoolSz
StackTop == StackBase + PoolSz
HeapBase == 5 * PoolSz

-----------------------------------------------------------------------------
(* Characters.  Asc[c] is the code of the character c, as 'c' is in C:     *)
(* the printable characters follow each other from the space, 32.  The     *)
(* string has a space where the grave accent is.                           *)
Printable ==
    " !\"#$%&'()*+,-./0123456789:;<=>?@ABCDEFGHIJKLMNOPQRSTUVWXYZ[\\]^_ abcdefghijklmnopqrstuvwxyz{|}~"

Asc ==
    [ch \in {SubSeq(Printable, i, i) : i \in 1..Len(Printable)} \cup {"\n"} |->
        IF ch = "\n" THEN 10
        ELSE 31 + CHOOSE i \in 1..Len(Printable) :
                      /\ SubSeq(Printable, i, i) = ch
                      /\ \A j \in 1..(i - 1) : SubSeq(Printable, j, j) # ch]

(* The bytes of a string constant, without the terminating NUL.            *)
Bytes(str) == [i \in 1..Len(str) |-> Asc[SubSeq(str, i, i)]]

IsLower(c) == c >= Asc["a"] /\ c <= Asc["z"]
IsUpper(c) == c >= Asc["A"] /\ c <= Asc["Z"]
IsDigit(c) == c >= Asc["0"] /\ c <= Asc["9"]

(* The test of line 133: what may start an identifier.                     *)
IsIdStart(c) == IsLower(c) \/ IsUpper(c) \/ c = Asc["_"]

(* The test of lines 136-137: what may continue an identifier.             *)
IsIdChar(c) == IsLower(c) \/ IsUpper(c) \/ IsDigit(c) \/ c = Asc["_"]

-----------------------------------------------------------------------------
(* 64-bit arithmetic for the identifier hash.  tk is a long long; a hash   *)
(* of more than nine characters wraps (the build wraps two's complement).  *)
(* A 64-bit word is four 16-bit limbs, least significant first.            *)
Limb == 256 * 256

Word64(n) == <<n % Limb, (n \div Limb) % Limb, 0, 0>>

(* h * m + c modulo 2^64, for m < 2^15 and 0 <= c < 2^16.                  *)
MulAdd64(h, m, c) ==
    LET x0 == h[1] * m + c
        x1 == h[2] * m + (x0 \div Limb)
        x2 == h[3] * m + (x1 \div Limb)
        x3 == h[4] * m + (x2 \div Limb)
    IN  <<x0 % Limb, x1 % Limb, x2 % Limb, x3 % Limb>>

-----------------------------------------------------------------------------
(* The symbol table: a sequence of records (lines 75-86).  The arena is    *)
(* zeroed (line 468), so the first slot with Tk = 0 is the one after the   *)
(* last record.  Name is an index into the character memory.               *)
ZeroSym ==
    [Tk |-> 0, Hash |-> Word64(0), Name |-> 0, Class |-> 0, Type |-> 0,
     Val |-> 0, HClass |-> 0, HType |-> 0, HVal |-> 0]

(* *p: the character memory holds the keyword string of lines 472-473,     *)
(* its NUL, the source and its NUL (line 494).                             *)
Ch(c, i) == IF i >= 1 /\ i <= Len(c.chars) THEN c.chars[i] ELSE 0

(* The loops of lines 128 and 185: skip to the end of the line.            *)
SkipLine(c, q) ==
    CHOOSE r \in q..(Len(c.chars) + 1) :
        /\ Ch(c, r) = 0 \/ Ch(c, r) = Asc["\n"]
        /\ \A k \in q..(r - 1) : Ch(c, k) # 0 /\ Ch(c, k) # Asc["\n"]

(* The loop of lines 136-138.  IdEnd is where p stops.  IdHash is tk      *)
(* after the turns that take the characters a .. b - 1, from tk = h; the   *)
(* turns are done in two halves, the second from the tk the first leaves.  *)
IdEnd(c, q) ==
    CHOOSE r \in q..(Len(c.chars) + 1) :
        ~IsIdChar(Ch(c, r)) /\ \A k \in q..(r - 1) : IsIdChar(Ch(c, k))

RECURSIVE IdHash(_, _, _, _)
IdHash(c, a, b, h) ==
    IF b <= a THEN h
    ELSE IF b = a + 1 THEN MulAdd64(h, HashMul, Ch(c, a))
    ELSE LET m    == (a + b) \div 2
             left == IdHash(c, a, m, h)
         IN  IF Len(left) = 4 THEN IdHash(c, m, b, left) ELSE left

(* !memcmp(a, b, n)                                                        *)
MemEq(c, a, b, n) == \A k \in 0..(n - 1) : Ch(c, a + k) = Ch(c, b + k)

(* The test of line 147.                                                   *)
SymMatch(c, rec, h, pp, n) == rec.Hash = h /\ MemEq(c, rec.Name, pp, n)

(* The walk of lines 144-152: the index of the first matching record, or   *)
(* 0 when the walk reaches the empty slot.                                 *)
SymFind(c, h, pp, n) ==
    LET hits == {i \in 1..Len(c.sym) : SymMatch(c, c.sym[i], h, pp, n)}
    IN  IF hits = {} THEN 0 ELSE CHOOSE i \in hits : \A j \in hits : i <= j

(* Lines 144-158: the record found, or a new one in the empty slot; the    *)
(* identifier is the characters pp .. q - 1 and h its hash.                *)
Intern(c, pp, q, h, i) ==
    IF i # 0
    THEN [c EXCEPT !.p = q, !.pp = pp, !.id = i, !.tk = c.sym[i].Tk,
                   !.isid = TRUE]
    ELSE [c EXCEPT !.p = q, !.pp = pp, !.id = Len(c.sym) + 1, !.tk = Id,
                   !.isid = TRUE,
                   !.sym = Append(c.sym,
                       [ZeroSym EXCEPT !.Name = pp, !.Hash = h, !.Tk = Id])]

(* Line 141: tk = (tk << 6) + (p - pp), and the walk with it.              *)
Hashed(c, pp, q, h) == Intern(c, pp, q, h, SymFind(c, h, pp, q - pp))

(* Lines 133-159: an identifier, whose first character is at c.p - 1.      *)
Scanned(c, q) ==
    Hashed(c, c.p - 1, q,
           MulAdd64(IdHash(c, c.p, q, Word64(c.tk)), HashShift, q - c.p + 1))

NextIdent(c) == Scanned(c, IdEnd(c, c.p))

(* The three number loops of lines 164-176; each gives [p, ival].          *)
RECURSIVE DecScan(_, _, _)
DecScan(c, q, v) ==
    IF IsDigit(Ch(c, q)) THEN DecScan(c, q + 1, v * 10 + Ch(c, q) - Asc["0"])
    ELSE [p |-> q, ival |-> v]

IsHex(t) ==
    \/ (t >= Asc["0"] /\ t <= Asc["9"])
    \/ (t >= Asc["a"] /\ t <= Asc["f"])
    \/ (t >= Asc["A"] /\ t <= Asc["F"])

RECURSIVE HexScan(_, _, _)
HexScan(c, q, v) ==
    LET t == Ch(c, q + 1)
    IN  IF t # 0 /\ IsHex(t)
        THEN HexScan(c, q + 1, v * 16 + (t % 16) + (IF t >= Asc["A"] THEN 9 ELSE 0))
        ELSE [p |-> q + 1, ival |-> v]

RECURSIVE OctScan(_, _, _)
OctScan(c, q, v) ==
    IF Ch(c, q) >= Asc["0"] /\ Ch(c, q) <= Asc["7"]
    THEN OctScan(c, q + 1, v * 8 + Ch(c, q) - Asc["0"])
    ELSE [p |-> q, ival |-> v]

(* Lines 162-179.                                                          *)
NextNumber(c) ==
    LET v0 == c.tk - Asc["0"]
        r  == IF v0 # 0 THEN DecScan(c, c.p, v0)
              ELSE IF Ch(c, c.p) = Asc["x"] \/ Ch(c, c.p) = Asc["X"]
                   THEN HexScan(c, c.p, 0)
              ELSE OctScan(c, c.p, 0)
    IN  [c EXCEPT !.p = r.p, !.ival = r.ival, !.tk = Num]

(* The loop of lines 196-201: c.tk is the opening quote.                   *)
RECURSIVE StrScan(_)
StrScan(c) ==
    IF Ch(c, c.p) # 0 /\ Ch(c, c.p) # c.tk
    THEN LET c1  == Ch(c, c.p)
             esc == c1 = Asc["\\"]
             c2  == Ch(c, c.p + 1)
             iv  == IF esc THEN (IF c2 = Asc["n"] THEN Asc["\n"] ELSE c2) ELSE c1
             s1  == [c EXCEPT !.p = IF esc THEN c.p + 2 ELSE c.p + 1, !.ival = iv]
         IN  StrScan(IF c.tk = Asc["\""]
                     THEN [s1 EXCEPT !.dmem = Append(@, iv), !.data = @ + 1]
                     ELSE s1)
    ELSE c

(* Lines 194-205.                                                          *)
NextQuote(c) ==
    LET pp == c.data
        s  == StrScan(c)
    IN  IF c.tk = Asc["\""]
        THEN [s EXCEPT !.p = @ + 1, !.ival = pp]
        ELSE [s EXCEPT !.p = @ + 1, !.tk = Num]

(* Lines 207-217: an operator of one or two characters.  two is a set of   *)
(* <<second character, token>>; one is the token of the single character.  *)
NextOp(c, two, one) ==
    IF \E t \in two : t[1] = Ch(c, c.p)
    THEN LET t == CHOOSE t \in two : t[1] = Ch(c, c.p)
         IN  [c EXCEPT !.p = @ + 1, !.tk = t[2]]
    ELSE [c EXCEPT !.tk = one]

(* Lines 109-122: with -s, the line is listed with the code emitted for    *)
(* it, which moves lp and le; what is printed is not modelled.             *)
ListLine(c) == IF c.src # 0 THEN [c EXCEPT !.lp = c.p, !.le = Len(c.e)] ELSE c

(* The characters that are their own token (line 218).                    *)
Single ==
    {Asc["~"], Asc[";"], Asc["{"], Asc["}"], Asc["("], Asc[")"], Asc["]"],
     Asc[","], Asc[":"]}

(* next(): lines 100-229.                                                  *)
RECURSIVE next(_)
next(c0) ==
    LET t == Ch(c0, c0.p)
        c == [c0 EXCEPT !.tk = t, !.p = @ + 1, !.isid = FALSE]
    IN  CASE c0.err # "" -> c0
          [] t = 0 -> [c0 EXCEPT !.tk = 0, !.isid = FALSE]
          [] t = Asc["\n"] -> next([ListLine(c) EXCEPT !.line = @ + 1])
          [] t = Asc["#"] -> next([c EXCEPT !.p = SkipLine(c, c.p)])
          [] IsIdStart(t) -> NextIdent(c)
          [] IsDigit(t) -> NextNumber(c)
          [] t = Asc["/"] /\ Ch(c, c.p) = Asc["/"] ->
                next([c EXCEPT !.p = SkipLine(c, c.p + 1)])
          [] t = Asc["/"] /\ Ch(c, c.p) # Asc["/"] -> [c EXCEPT !.tk = Div]
          [] t = Asc["'"] \/ t = Asc["\""] -> NextQuote(c)
          [] t = Asc["="] -> NextOp(c, {<<Asc["="], Eq>>}, Assign)
          [] t = Asc["+"] -> NextOp(c, {<<Asc["+"], Inc>>}, Add)
          [] t = Asc["-"] -> NextOp(c, {<<Asc["-"], Dec>>}, Sub)
          [] t = Asc["!"] -> NextOp(c, {<<Asc["="], Ne>>}, t)
          [] t = Asc["<"] -> NextOp(c, {<<Asc["="], Le>>, <<Asc["<"], Shl>>}, Lt)
          [] t = Asc[">"] -> NextOp(c, {<<Asc["="], Ge>>, <<Asc[">"], Shr>>}, Gt)
          [] t = Asc["|"] -> NextOp(c, {<<Asc["|"], Lor>>}, Or)
          [] t = Asc["&"] -> NextOp(c, {<<Asc["&"], Lan>>}, And)
          [] t = Asc["^"] -> [c EXCEPT !.tk = Xor]
          [] t = Asc["%"] -> [c EXCEPT !.tk = Mod]
          [] t = Asc["*"] -> [c EXCEPT !.tk = Mul]
          [] t = Asc["["] -> [c EXCEPT !.tk = Brak]
          [] t = Asc["?"] -> [c EXCEPT !.tk = Cond]
          [] t \in Single -> c
          [] OTHER -> next(c)

-----------------------------------------------------------------------------
(* main(), lines 460-489: the arenas, and the symbol table seeded with     *)
(* the keywords, the library functions, void and main.                     *)
KeywordText ==
    "char else enum if int return sizeof while open read close printf malloc free memset memcmp exit void main"

(* Beside the globals of the program the record keeps a history of what   *)
(* expr did, which the program does not keep: the literals parsed (lits),  *)
(* the postfix ++ and -- (posts), the binary - (subs), the assignments     *)
(* (asgs) and the calls (calls).                                           *)
Start(text, srcflag) ==
    [chars |-> Bytes(KeywordText) \o <<0>> \o text \o <<0>>,
     p |-> 1, pp |-> 0, lp |-> 0, line |-> 0, tk |-> 0, ival |-> 0, id |-> 0,
     isid |-> FALSE, sym |-> << >>, e |-> << >>, ek |-> << >>, le |-> 0,
     data |-> DataBase, dmem |-> << >>, ty |-> 0, loc |-> 0, bt |-> 0,
     i |-> Char,
     src |-> srcflag, idmain |-> 0, err |-> "",
     lits |-> << >>, posts |-> << >>, subs |-> << >>, asgs |-> << >>,
     calls |-> << >>]

(* One turn of the loop of lines 477-480: next(); id[Tk] = i++.  After    *)
(* the last turn comes i = OPEN (line 482).                                *)
SeedKeyword(c) ==
    LET s == next(c)
    IN  [s EXCEPT !.sym[s.id].Tk = c.i,
                  !.i = IF c.i = While THEN OPEN ELSE c.i + 1]

(* One turn of the loop of lines 482-487.                                  *)
SeedLibrary(c) ==
    LET s == next(c)
    IN  [s EXCEPT !.sym[s.id].Class = Sys, !.sym[s.id].Type = INT,
                  !.sym[s.id].Val = c.i, !.i = c.i + 1]

(* Lines 488-489: void is given the token of char, and main is kept.       *)
SeedVoidMain(c) ==
    LET v == next(c)
        w == next([v EXCEPT !.sym[v.id].Tk = Char])
    IN  [w EXCEPT !.idmain = w.id]

(* Lines 492-499: the source is read, line = 1, and the first token.       *)
ReadSource(c) ==
    next([c EXCEPT !.p = Len(Bytes(KeywordText)) + 2,
                   !.lp = Len(Bytes(KeywordText)) + 2, !.line = 1])

-----------------------------------------------------------------------------
(* Emission.  e is the text written so far: e[i] is the word at address    *)
(* Addr(i), and the C pointer e is Addr(Len(e)).  ek[i] records whether    *)
(* the statement that last wrote e[i] wrote an opcode or an operand.       *)
(*                                                                         *)
(* A diagnostic is followed by exit(-1) or return -1: nothing runs after   *)
(* it.  The message is kept in err, and every operator below leaves a      *)
(* record with a message as it is.                                         *)
Addr(i) == TextBase + SizeofInt * i

Op(c, w) ==
    IF c.err # "" THEN c
    ELSE [c EXCEPT !.e = Append(@, w), !.ek = Append(@, "op")]

Arg(c, w) ==
    IF c.err # "" THEN c
    ELSE [c EXCEPT !.e = Append(@, w), !.ek = Append(@, "arg")]

(* *e, the last word written.                                              *)
LastWord(c) == IF Len(c.e) = 0 THEN 0 ELSE c.e[Len(c.e)]

(* History: whether the last word was written as an opcode or an operand.  *)
LastKind(c) == IF Len(c.ek) = 0 THEN "none" ELSE c.ek[Len(c.ek)]

(* *e = w, for an opcode w.                                                *)
SetLast(c, w) ==
    IF c.err # "" THEN c
    ELSE [c EXCEPT !.e[Len(c.e)] = w, !.ek[Len(c.e)] = "op"]

(* --e                                                                     *)
DropLast(c) ==
    IF c.err # "" THEN c
    ELSE [c EXCEPT !.e = SubSeq(@, 1, Len(@) - 1), !.ek = SubSeq(@, 1, Len(@) - 1)]

(* *d = v, for a hole d reserved by d = ++e.                               *)
Patch(c, d, v) == IF c.err # "" THEN c ELSE [c EXCEPT !.e[d] = v]

(* *d = (int)(e + k)                                                       *)
PatchHere(c, d, k) == Patch(c, d, Addr(Len(c.e) + k))

(* printf(...); exit(-1);                                                  *)
Fail(c, msg) == IF c.err # "" THEN c ELSE [c EXCEPT !.err = msg]

(* ty = t                                                                  *)
SetTy(c, t) == IF c.err # "" THEN c ELSE [c EXCEPT !.ty = t]

(* if (tk == ',') next();                                                  *)
Comma(c) == IF c.tk = Asc[","] THEN next(c) ELSE c

(* The test the parser uses for an lvalue: *e == LC || *e == LI.           *)
EndsInLoad(c) == LastWord(c) = LC \/ LastWord(c) = LI

(* (ty == CHAR) ? LC : LI  and  (ty == CHAR) ? SC : SI                     *)
LoadOp(t) == IF t = CHAR THEN LC ELSE LI

StoreOp(t) == IF t = CHAR THEN SC ELSE SI

(* (ty > PTR) ? sizeof(int) : sizeof(char)   (lines 324, 378, 380)         *)
StepOf(t) == IF t > PTR THEN SizeofInt ELSE SizeofChar

(* Line 246: data is moved up to the next multiple of sizeof(int) above it.*)
AlignData(c) ==
    LET d == ((c.data + SizeofInt) \div SizeofInt) * SizeofInt
    IN  IF c.err # "" THEN c
        ELSE [c EXCEPT !.data = d,
                       !.dmem = @ \o [i \in 1..(d - c.data) |-> 0]]

(* A parser whose binary handlers all parse their right operand at the    *)
(* level of the unary operators.                                           *)
RightLevelFlat(op) == Inc

(* The level at which the handler of a binary operator parses its right    *)
(* operand (lines 347-373).                                                *)
RightLevel(op) ==
    CASE op = Lor -> Lan
      [] op = Lan -> Or
      [] op = Or -> Xor
      [] op = Xor -> And
      [] op = And -> Eq
      [] op \in {Eq, Ne} -> Lt
      [] op \in {Lt, Gt, Le, Ge} -> Shl
      [] op \in {Shl, Shr} -> Add
      [] op \in {Add, Sub} -> Mul
      [] op \in {Mul, Div, Mod} -> Inc

(* The opcode of a binary operator whose handler is PSH, right operand,    *)
(* opcode, ty = INT (lines 349-359 and 371-373).                           *)
BinOpcode(op) ==
    CASE op = Or -> OR   [] op = Xor -> XOR [] op = And -> AND
      [] op = Eq -> EQ   [] op = Ne -> NE   [] op = Lt -> LT
      [] op = Gt -> GT   [] op = Le -> LE   [] op = Ge -> GE
      [] op = Shl -> SHL [] op = Shr -> SHR [] op = Mul -> MUL
      [] op = Div -> DIV [] op = Mod -> MOD

(* PSH, IMM, sizeof(int), op: the scaling sequences of lines 362-387.      *)
Scale(c, op) == Op(Arg(Op(Op(c, PSH), IMM), SizeofInt), op)

(* History: a literal primary of this kind was parsed, and left c.ty.      *)
Lit(c, kind) ==
    IF c.err # "" THEN c
    ELSE [c EXCEPT !.lits = Append(@, [kind |-> kind, ty |-> c.ty])]

(* Lines 238-241: a numeric literal.                                       *)
PrimaryNum(c) == Lit(next(Arg(Op(c, IMM), c.ival)), "num")

(* Lines 242-247: a string literal and the ones that follow it.            *)
RECURSIVE SkipStrings(_)
SkipStrings(c) ==
    IF c.err = "" /\ c.tk = Asc["\""] THEN SkipStrings(next(c)) ELSE c

PrimaryStr(c) == Lit(AlignData(SkipStrings(next(Arg(Op(c, IMM), c.ival)))), "str")

(* Lines 261-263: the instruction of the call.                             *)
CallOp(c, rec) ==
    IF rec.Class = Sys THEN Op(c, rec.Val)
    ELSE IF rec.Class = Fun THEN Arg(Op(c, JSR), rec.Val)
    ELSE Fail(c, "bad function call")

(* Lines 261-265: the call, after its arguments and the closing paren.     *)
(* History: the call is noted with the place of its instruction.           *)
EmitCall(c, d, t) ==
    LET rec == c.sym[d]
        c1  == [c EXCEPT !.calls = Append(@, [at |-> Len(c.e) + 1, n |-> t,
                                              class |-> rec.Class,
                                              val |-> rec.Val])]
    IN  IF c.err # "" THEN c
        ELSE SetTy(IF t # 0 THEN Arg(Op(CallOp(c1, rec), ADJ), t)
                   ELSE CallOp(c1, rec),
                   rec.Type)

(* Lines 267-273: an enum constant or a variable.                          *)
PrimaryVar(c, d) ==
    LET rec == c.sym[d]
    IN  IF c.err # "" THEN c
        ELSE IF rec.Class = Num THEN SetTy(Arg(Op(c, IMM), rec.Val), INT)
        ELSE IF rec.Class = Loc
             THEN SetTy(Op(Arg(Op(c, LEA), c.loc - rec.Val), LoadOp(rec.Type)),
                        rec.Type)
        ELSE IF rec.Class = Glo
             THEN SetTy(Op(Arg(Op(c, IMM), rec.Val), LoadOp(rec.Type)), rec.Type)
        ELSE Fail(c, "undefined variable")

(* Lines 320-321 and 375-376: the load that ends the operand is done      *)
(* after a PSH of the address.                                             *)
PushAddress(c) == Op(SetLast(c, PSH), LastWord(c))

(* Lines 323-325 and 378-381: PSH, IMM, the step, and ADD or SUB.          *)
Bump(c, t, op) == Op(Arg(Op(Op(c, PSH), IMM), StepOf(t)), op)

(* Lines 320-326, after the operand of ++x or --x: t is Inc or Dec.        *)
PreIncEmit(c, t) ==
    IF ~EndsInLoad(c) THEN Fail(c, "bad lvalue in pre-increment")
    ELSE Op(Bump(PushAddress(c), c.ty, IF t = Inc THEN ADD ELSE SUB),
            StoreOp(c.ty))

(* History: the code of a postfix ++ or -- is e[at] .. e[Len(e)].          *)
LogPost(c, at, t, type) ==
    IF c.err # "" THEN c
    ELSE [c EXCEPT !.posts = Append(@, [at |-> at, end |-> Len(c.e),
                                        tk |-> t, ty |-> type])]

(* Lines 375-381, for x++ or x--: c.tk is Inc or Dec.                      *)
PostIncEmit(c) ==
    IF ~EndsInLoad(c) THEN Fail(c, "bad lvalue in post-increment")
    ELSE LogPost(Bump(Bump(PushAddress(c), c.ty,
                           IF c.tk = Inc THEN ADD ELSE SUB),
                      c.ty, IF c.tk = Inc THEN SUB ELSE ADD),
                 Len(c.e), c.tk, c.ty)

(* Line 335: the left operand of = becomes the address to store to.        *)
(* History: the assignment is noted with the word that was tested.         *)
AssignLvalue(c) ==
    LET c1 == [c EXCEPT !.asgs = Append(@, [at |-> Len(c.e), word |-> LastWord(c),
                                            kind |-> LastKind(c)])]
    IN  IF c.err # "" THEN c
        ELSE IF EndsInLoad(c) THEN SetLast(c1, PSH)
        ELSE Fail(c1, "bad lvalue in assignment")

(* Line 291-292: after the operand of *.                                   *)
Deref(c) ==
    IF c.ty > INT THEN Op(SetTy(c, c.ty - PTR), LoadOp(c.ty - PTR))
    ELSE Fail(c, "bad dereference")

(* Lines 296-297: & erases the load that ends its operand.                 *)
AddressOf(c) ==
    IF EndsInLoad(c) THEN SetTy(DropLast(c), c.ty + PTR)
    ELSE Fail(c, "bad address-of")

(* A + that adds the right operand as it is, whatever the left is.         *)
AddEmitUnscaled(c, t) == Op(SetTy(c, t), ADD)

(* Line 362, after the right operand of +: t is the type of the left.      *)
AddEmit(c, t) ==
    Op(IF t > PTR THEN Scale(SetTy(c, t), MUL) ELSE SetTy(c, t), ADD)

(* Lines 367-369, after the right operand of -: t is the type of the left  *)
(* operand and c.ty the type of the right.                                 *)
SubEmit(c, t) ==
    IF t > PTR /\ t = c.ty THEN SetTy(Scale(Op(c, SUB), DIV), INT)
    ELSE IF t > PTR THEN Op(Scale(SetTy(c, t), MUL), SUB)
    ELSE Op(SetTy(c, t), SUB)

(* History: a binary - is noted: the types of its operands, whether the    *)
(* right one was a lone number, and the code e[from] .. e[to] it wrote     *)
(* after the right operand.                                                *)
LogSub(c, lt, rt, rnum, from) ==
    IF c.err # "" THEN c
    ELSE [c EXCEPT !.subs = Append(@, [lt |-> lt, rt |-> rt, rnum |-> rnum,
                                       from |-> from, to |-> Len(c.e),
                                       ty |-> c.ty])]

(* Lines 366-369: c is after the right operand, which began at e[n0 + 1]   *)
(* with a number if num.                                                   *)
SubRight(c, t, num, n0) ==
    LogSub(SubEmit(c, t), t, c.ty, num /\ Len(c.e) = n0 + 2, Len(c.e) + 1)

(* Lines 387-390, after the index and the closing bracket.                 *)
IndexEmit(c, t) ==
    IF t < PTR THEN Fail(c, "pointer type expected")
    ELSE SetTy(Op(Op(IF t > PTR THEN Scale(c, MUL) ELSE c, ADD), LoadOp(t - PTR)),
               t - PTR)

(* The token t is expected: next() if it is there, else the message.       *)
Expect(c, t, msg) == IF c.tk = t THEN next(c) ELSE Fail(c, msg)

RECURSIVE expr(_, _)
RECURSIVE Infix(_, _)
RECURSIVE CallArgs(_, _, _)
RECURSIVE Cast(_, _)

(* Lines 252-265: the arguments of a call of d, t of them so far, the      *)
(* closing paren and the call.                                             *)
CallArgs(c, d, t) ==
    IF c.err # "" THEN c
    ELSE IF c.tk = Asc[")"] THEN EmitCall(next(c), d, t)
    ELSE CallArgs(Comma(Op(expr(c, Assign), PSH)), d, t + 1)

(* Lines 250-273: an identifier d, and the token after it.                 *)
IdRest(c, d) ==
    IF c.tk = Asc["("] THEN CallArgs(next(c), d, 0) ELSE PrimaryVar(c, d)

(* Lines 248-274: an identifier.                                           *)
PrimaryId(c) == IdRest(next(c), c.id)

(* Lines 279-282: the stars of a cast to t, its closing paren and its      *)
(* operand.                                                                *)
Cast(c, t) ==
    IF c.err # "" THEN c
    ELSE IF c.tk = Mul THEN Cast(next(c), t + PTR)
    ELSE SetTy(expr(Expect(c, Asc[")"], "bad cast"), Inc), t)

(* Lines 277-287: after the opening paren.                                 *)
ParenRest(c) ==
    IF c.tk = IntKw \/ c.tk = Char
    THEN Cast(next(c), IF c.tk = IntKw THEN INT ELSE CHAR)
    ELSE Expect(expr(c, Assign), Asc[")"], "close paren expected")

(* Lines 275-288: a cast or a parenthesised expression.                    *)
PrimaryParen(c) == ParenRest(next(c))

(* Lines 289-311 and 318-326: a unary operator op, after its operand.      *)
Unary(c, op) ==
    CASE op = Mul -> Deref(c)
      [] op = And -> AddressOf(c)
      [] op = Asc["!"] -> SetTy(Op(Arg(Op(Op(c, PSH), IMM), 0), EQ), INT)
      [] op = Asc["~"] -> SetTy(Op(Arg(Op(Op(c, PSH), IMM), -1), XOR), INT)
      [] op = Add -> SetTy(c, INT)
      [] op \in {Inc, Dec} -> PreIncEmit(c, op)

(* Lines 314-316: unary minus, after its IMM.                              *)
Negate(c) ==
    SetTy(IF c.tk = Num THEN next(Arg(c, -c.ival))
          ELSE Op(expr(Op(Arg(c, -1), PSH), Inc), MUL),
          INT)

(* Lines 237-328: the prefix forms.                                        *)
Primary(c) ==
    CASE c.tk = 0 -> Fail(c, "unexpected eof in expression")
      [] c.tk = Num -> PrimaryNum(c)
      [] c.tk = Asc["\""] -> PrimaryStr(c)
      [] c.tk = Id -> PrimaryId(c)
      [] c.tk = Asc["("] -> PrimaryParen(c)
      [] c.tk \in {Mul, And, Asc["!"], Asc["~"], Add, Inc, Dec} ->
            Unary(expr(next(c), Inc), c.tk)
      [] c.tk = Sub -> Negate(Op(next(c), IMM))
      [] OTHER -> Fail(c, "bad expression")

(* Lines 343-345: the third operand of ?:, d the hole of the BZ.           *)
CondElse(c, d) ==
    PatchHere(expr(Arg(Op(PatchHere(c, d, 3), JMP), 0), Cond), Len(c.e) + 2, 1)

(* The handler of the binary operator op, after its next(): t is the type  *)
(* of the left operand (lines 335-373 and 385-390).                        *)
InfixRest(c, op, t) ==
    CASE op = Assign -> Op(SetTy(expr(AssignLvalue(c), Assign), t), StoreOp(t))
      [] op = Cond ->
            CondElse(Expect(expr(Arg(Op(c, BZ), 0), Assign), Asc[":"],
                            "conditional missing colon"),
                     Len(c.e) + 2)
      [] op \in {Lor, Lan} ->
            SetTy(PatchHere(expr(Arg(Op(c, IF op = Lor THEN BNZ ELSE BZ), 0),
                                 RightLevel(op)),
                            Len(c.e) + 2, 1),
                  INT)
      [] op = Add -> AddEmit(expr(Op(c, PSH), RightLevel(op)), t)
      [] op = Sub ->
            SubRight(expr(Op(c, PSH), RightLevel(op)), t, c.tk = Num, Len(c.e) + 1)
      [] op = Brak ->
            IndexEmit(Expect(expr(Op(c, PSH), Assign), Asc["]"],
                             "close bracket expected"),
                      t)
      [] OTHER -> SetTy(Op(expr(Op(c, PSH), RightLevel(op)), BinOpcode(op)), INT)

(* One turn of the loop of lines 330-393, for the operator c.tk.           *)
InfixOne(c) ==
    IF c.tk = Inc \/ c.tk = Dec THEN next(PostIncEmit(c))
    ELSE IF c.tk >= Assign /\ c.tk <= Brak THEN InfixRest(next(c), c.tk, c.ty)
    ELSE Fail(c, "compiler error tk")

(* while (tk >= lev) ...                                                   *)
Infix(c, lev) ==
    IF c.err # "" \/ c.tk < lev THEN c ELSE Infix(InfixOne(c), lev)

(* expr(lev): lines 233-394.                                               *)
expr(c, lev) == IF c.err # "" THEN c ELSE Infix(Primary(c), lev)

-----------------------------------------------------------------------------
(* stmt(): lines 398-445.                                                  *)
RECURSIVE stmt(_)
RECURSIVE Block(_)

(* while (tk != '}') stmt();   (lines 435 and 572)                         *)
Block(c) ==
    IF c.err # "" \/ c.tk = Asc["}"] THEN c ELSE Block(stmt(c))

(* ( expr )   (lines 404-406 and 419-421)                                  *)
Condition(c) ==
    Expect(expr(Expect(c, Asc["("], "open paren expected"), Assign),
           Asc[")"], "close paren expected")

(* Lines 410-414: the else part; b is the hole of the JMP.                 *)
ElsePart(c) == PatchHere(stmt(next(Arg(Op(c, JMP), 0))), Len(c.e) + 2, 1)

(* Lines 409-414, after the statement of the if: b is the hole of the BZ.  *)
IfElse(c, b) ==
    IF c.tk = Else THEN ElsePart(PatchHere(c, b, 3)) ELSE PatchHere(c, b, 1)

(* Lines 407-414, after the condition.                                     *)
IfBranches(c) == IfElse(stmt(Arg(Op(c, BZ), 0)), Len(c.e) + 2)

(* A loop whose BZ keeps the zero it was written with.                     *)
WhileBodyUnpatched(c, a) == Arg(Op(stmt(Arg(Op(c, BZ), 0)), JMP), a)

(* Lines 422-425, after the condition: a is the start of the loop.         *)
WhileBody(c, a) ==
    PatchHere(Arg(Op(stmt(Arg(Op(c, BZ), 0)), JMP), a), Len(c.e) + 2, 1)

(* Lines 429-431, after return.                                            *)
ReturnValue(c) ==
    Expect(Op(IF c.tk # Asc[";"] THEN expr(c, Assign) ELSE c, LEV),
           Asc[";"], "semicolon expected")

(* The statement that starts with the token t, after next().               *)
StmtRest(c, t, a) ==
    CASE t = If -> IfBranches(Condition(c))
      [] t = While -> WhileBody(Condition(c), a)
      [] t = Return -> ReturnValue(c)
      [] t = Asc["{"] -> next(Block(c))
      [] t = Asc[";"] -> c

stmt(c) ==
    IF c.err # "" THEN c
    ELSE IF c.tk \in {If, While, Return, Asc["{"], Asc[";"]}
         THEN StmtRest(next(c), c.tk, Addr(Len(c.e) + 1))
    ELSE Expect(expr(c, Assign), Asc[";"], "semicolon expected")

-----------------------------------------------------------------------------
(* main(): the declaration loop, lines 500-592.  bt and i are main's       *)
(* locals; main's local ty (line 450) hides the global ty there, so the    *)
(* declarations leave the global ty alone.                                 *)

(* Line 519: the enumerator is entered in the table.                       *)
Enumerator(c) ==
    IF c.err # "" THEN c
    ELSE [c EXCEPT !.sym[c.id].Class = Num,
                   !.sym[c.id].Type = INT,
                   !.sym[c.id].Val = c.i,
                   !.i = c.i + 1]

(* Lines 514-517: the explicit value, after the =.                         *)
EnumInit(c) ==
    IF c.tk # Num THEN Fail(c, "bad enum initializer")
    ELSE next([c EXCEPT !.i = c.ival])

(* Lines 513-519, after the name.                                          *)
EnumValue(c) == Enumerator(IF c.tk = Assign THEN EnumInit(next(c)) ELSE c)

(* Lines 510-521: the enumerators, up to the closing brace.                *)
RECURSIVE EnumBody(_)
EnumBody(c) ==
    IF c.err # "" \/ c.tk = Asc["}"] THEN c
    ELSE IF c.tk # Id THEN Fail(c, "bad enum identifier")
    ELSE EnumBody(Comma(EnumValue(next(c))))

(* Lines 507-523, after the tag.                                           *)
EnumBraces(c) ==
    IF c.tk = Asc["{"] THEN next(EnumBody(next([c EXCEPT !.i = 0]))) ELSE c

(* Line 506, after enum.                                                   *)
EnumTag(c) == IF c.tk # Asc["{"] THEN next(c) ELSE c

(* Lines 501-524: the base type of a declaration.                          *)
BaseType(c) ==
    CASE c.tk = IntKw -> next([c EXCEPT !.bt = INT])
      [] c.tk = Char -> next([c EXCEPT !.bt = CHAR])
      [] c.tk = Enum -> EnumBraces(EnumTag(next([c EXCEPT !.bt = INT])))
      [] OTHER -> [c EXCEPT !.bt = INT]

(* Lines 545-547 and 563-565: the record of a parameter or local keeps     *)
(* what it shadows.                                                        *)
Shadow(rec, t, v) ==
    [rec EXCEPT !.HClass = rec.Class, !.Class = Loc,
                !.HType = rec.Type, !.Type = t,
                !.HVal = rec.Val, !.Val = v]

(* An unwinding that forgets id[Val] = id[HVal].                          *)
RestoreLocalNoVal(rec) ==
    IF rec.Class = Loc
    THEN [rec EXCEPT !.Class = rec.HClass, !.Type = rec.HType]
    ELSE rec

(* Lines 576-580: a record of class Loc gets back what it shadowed.        *)
RestoreLocal(rec) ==
    IF rec.Class = Loc
    THEN [rec EXCEPT !.Class = rec.HClass, !.Type = rec.HType, !.Val = rec.HVal]
    ELSE rec

(* Lines 574-582: the walk over the whole table; id ends on the empty slot.*)
Unwind(c) ==
    IF c.err # "" THEN c
    ELSE [c EXCEPT !.sym = [k \in 1..Len(c.sym) |-> RestoreLocal(c.sym[k])],
                   !.id = Len(c.sym) + 1]

(* Lines 542-548: the stars and the name of a parameter of type t.         *)
RECURSIVE ParamName(_, _)
ParamName(c, t) ==
    IF c.err # "" THEN c
    ELSE IF c.tk = Mul THEN ParamName(next(c), t + PTR)
    ELSE IF c.tk # Id THEN Fail(c, "bad parameter declaration")
    ELSE IF c.sym[c.id].Class = Loc THEN Fail(c, "duplicate parameter definition")
    ELSE next([c EXCEPT !.sym[c.id] = Shadow(@, t, c.i), !.i = c.i + 1])

(* Lines 538-550: the parameters, up to the closing paren.                 *)
RECURSIVE Params(_)
Params(c) ==
    IF c.err # "" \/ c.tk = Asc[")"] THEN c
    ELSE Params(Comma(ParamName(IF c.tk = IntKw \/ c.tk = Char THEN next(c) ELSE c,
                                IF c.tk = Char THEN CHAR ELSE INT)))

(* Lines 560-566: the stars and the name of a local of type t.             *)
RECURSIVE LocalName(_, _)
LocalName(c, t) ==
    IF c.err # "" THEN c
    ELSE IF c.tk = Mul THEN LocalName(next(c), t + PTR)
    ELSE IF c.tk # Id THEN Fail(c, "bad local declaration")
    ELSE IF c.sym[c.id].Class = Loc THEN Fail(c, "duplicate local definition")
    ELSE next([c EXCEPT !.sym[c.id] = Shadow(@, t, c.i + 1), !.i = c.i + 1])

(* Lines 558-568: the declarators of one local declaration, up to the ;    *)
RECURSIVE LocalNames(_)
LocalNames(c) ==
    IF c.err # "" \/ c.tk = Asc[";"] THEN c
    ELSE LocalNames(Comma(LocalName(c, c.bt)))

(* Lines 555-570: the local declarations at the top of a function.         *)
RECURSIVE Locals(_)
Locals(c) ==
    IF c.err # "" \/ ~(c.tk = IntKw \/ c.tk = Char) THEN c
    ELSE Locals(next(LocalNames(next(
             [c EXCEPT !.bt = IF c.tk = IntKw THEN INT ELSE CHAR]))))

(* Lines 535-537: the record of the function, before its parameters.       *)
FunctionHead(c) ==
    next([c EXCEPT !.sym[c.id].Class = Fun,
                   !.sym[c.id].Val = Addr(Len(c.e) + 1),
                   !.i = 0])

(* Line 571: *++e = ENT; *++e = i - loc;                                   *)
Enter(c) == Arg(Op(c, ENT), c.i - c.loc)

(* A function whose loc is i as the parameters left it: loc = i, not ++i.  *)
FunctionBraceLocEarly(c) ==
    IF c.err # "" THEN c
    ELSE IF c.tk # Asc["{"] THEN Fail(c, "bad function definition")
    ELSE Enter(Locals(next([c EXCEPT !.loc = c.i])))

(* Lines 552-571, after the closing paren of the parameters.               *)
FunctionBrace(c) ==
    IF c.err # "" THEN c
    ELSE IF c.tk # Asc["{"] THEN Fail(c, "bad function definition")
    ELSE Enter(Locals(next([c EXCEPT !.i = c.i + 1, !.loc = c.i + 1])))

(* Lines 538-571, from the parameter list to ENT.                          *)
FunctionEntry(c) == FunctionBrace(next(Params(c)))

(* Lines 585-587: a global variable.                                       *)
GlobalVar(c) ==
    [c EXCEPT !.sym[c.id].Class = Glo,
              !.sym[c.id].Val = c.data,
              !.data = c.data + SizeofInt,
              !.dmem = @ \o [k \in 1..SizeofInt |-> 0]]

(* Line 533: id[Type] = ty;                                                *)
SetType(c, t) == IF c.err # "" THEN c ELSE [c EXCEPT !.sym[c.id].Type = t]

(* Lines 528-533: the stars and the name of a declarator of type t, and    *)
(* the token after it.                                                     *)
RECURSIVE DeclName(_, _)
DeclName(c, t) ==
    IF c.err # "" THEN c
    ELSE IF c.tk = Mul THEN DeclName(next(c), t + PTR)
    ELSE IF c.tk # Id THEN Fail(c, "bad global declaration")
    ELSE IF c.sym[c.id].Class # 0 THEN Fail(c, "duplicate global definition")
    ELSE SetType(next(c), t)

(* Lines 573-582 and 589: the end of a function definition.                *)
FunctionEnd(c) == Comma(Unwind(Op(c, LEV)))

-----
(* The VM: lines 598-659.  Memory is bytes: a word is its eight bytes,     *)
(* least significant first, and mem maps the address of each word that     *)
(* was written to them.  The registers hold integers.                      *)

(* The bytes of the long long v, for v of at most 32 bits.                 *)
ToBytes(v) ==
    [j \in 1..SizeofInt |->
        IF j <= 4 THEN (v \div (256 ^ (j - 1))) % 256
        ELSE IF v < 0 THEN 255 ELSE 0]

(* Whether the long long of these bytes has at most 32 bits.               *)
Fits(b) ==
    \/ (\A j \in 5..8 : b[j] = 0) /\ b[4] < 128
    \/ (\A j \in 5..8 : b[j] = 255) /\ b[4] >= 128

FromBytes(b) ==
    b[1] + 256 * b[2] + 65536 * b[3]
         + 16777216 * (IF b[4] >= 128 THEN b[4] - 256 ELSE b[4])

(* (char)b: char is signed in this build.                                  *)
SignedChar(b) == IF b >= 128 THEN b - 256 ELSE b

InArena(base, addr) == addr >= base /\ addr < base + PoolSz

(* The word of the data segment at addr, as the compiler left it: the      *)
(* arena is zeroed (line 470) and holds the string literals.               *)
DataWord(c, addr) ==
    [j \in 1..SizeofInt |->
        LET k == addr - DataBase + j
        IN  IF k <= Len(c.dmem) THEN c.dmem[k] ELSE 0]

(* The eight bytes at the word address addr.  The text and data arenas     *)
(* are zeroed; the stack (line 465) and malloc'ed blocks are not, and a    *)
(* word of them that was never written holds junk.                         *)
WordAt(c, v, addr, junk) ==
    IF addr \in DOMAIN v.mem THEN v.mem[addr]
    ELSE IF InArena(TextBase, addr)
         THEN LET k == (addr - TextBase) \div SizeofInt
              IN  ToBytes(IF k >= 1 /\ k <= Len(c.e) THEN c.e[k] ELSE 0)
    ELSE IF InArena(DataBase, addr) THEN DataWord(c, addr)
    ELSE ToBytes(junk)

(* The addresses the VM may touch: the four arenas and the heap.           *)
Mapped(v, addr) ==
    \/ InArena(TextBase, addr) \/ InArena(DataBase, addr)
    \/ InArena(StackBase, addr)
    \/ (addr >= HeapBase /\ addr < v.brk)

(* A long long can be read at addr: this model reads aligned words of at   *)
(* most 32 bits.                                                           *)
CanLoad(c, v, addr, junk) ==
    /\ addr % SizeofInt = 0
    /\ Mapped(v, addr)
    /\ Fits(WordAt(c, v, addr, junk))

Load(c, v, addr, junk) == FromBytes(WordAt(c, v, addr, junk))

CanStore(v, addr) ==
    /\ addr % SizeofInt = 0
    /\ Mapped(v, addr)

Store(v, addr, val) ==
    [v EXCEPT !.mem = (addr :> ToBytes(val)) @@ v.mem]

WordOf(addr) == addr - (addr % SizeofInt)

LoadChar(c, v, addr, junk) ==
    SignedChar(WordAt(c, v, WordOf(addr), junk)[(addr % SizeofInt) + 1])

StoreChar(c, v, addr, val, junk) ==
    LET w == WordAt(c, v, WordOf(addr), junk)
    IN  [v EXCEPT !.mem = (WordOf(addr) :>
                    [w EXCEPT ![(addr % SizeofInt) + 1] = val % 256]) @@ v.mem]

(* The VM stops: why, and what main() returns.  "fault" is an access the   *)
(* host leaves undefined (outside the arenas) or that this model does not  *)
(* follow (unaligned, wider than 32 bits): the run is followed no further. *)
Halt(v, why, code) == [v EXCEPT !.halt = why, !.code = code]

(* Bitwise operators on two's complement integers of any width.            *)
RECURSIVE BitOp(_, _, _)
BitOp(x, y, tt) ==
    LET b == tt[(x % 2) * 2 + (y % 2) + 1]
    IN  IF x \in {0, -1} /\ y \in {0, -1} THEN -b
        ELSE b + 2 * BitOp(x \div 2, y \div 2, tt)

(* C's / and %: the quotient is truncated towards zero.                    *)
CDiv(x, y) ==
    LET q == (IF x < 0 THEN -x ELSE x) \div (IF y < 0 THEN -y ELSE y)
    IN  IF (x < 0) = (y < 0) THEN q ELSE -q

CMod(x, y) == x - y * CDiv(x, y)

Bool(b) == IF b THEN 1 ELSE 0

(* a = *sp++ op a  (lines 632-647): x is the popped word.                  *)
Arith(i, x, a) ==
    CASE i = OR  -> BitOp(x, a, <<0, 1, 1, 1>>)
      [] i = XOR -> BitOp(x, a, <<0, 1, 1, 0>>)
      [] i = AND -> BitOp(x, a, <<0, 0, 0, 1>>)
      [] i = EQ  -> Bool(x = a)
      [] i = NE  -> Bool(x # a)
      [] i = LT  -> Bool(x < a)
      [] i = GT  -> Bool(x > a)
      [] i = LE  -> Bool(x <= a)
      [] i = GE  -> Bool(x >= a)
      [] i = SHL -> x * (2 ^ a)
      [] i = SHR -> x \div (2 ^ a)
      [] i = ADD -> x + a
      [] i = SUB -> x - a
      [] i = MUL -> x * a
      [] i = DIV -> CDiv(x, a)
      [] i = MOD -> CMod(x, a)

(* The operand pairs the host computes without a trap, in this model's     *)
(* range: no division by zero, shift counts of 0..15.                      *)
ArithDefined(i, a) ==
    /\ (i \in {DIV, MOD} => a # 0)
    /\ (i \in {SHL, SHR} => a >= 0 /\ a < 16)

(* *--sp = val                                                             *)
Push(v, val) == [Store(v, v.sp - SizeofInt, val) EXCEPT !.sp = @ - SizeofInt]

(* A LEV that pops the saved bp and leaves the return address on the      *)
(* stack.                                                                  *)
ExecLEVOneWord(c, v, junk) ==
    IF ~(CanLoad(c, v, v.bp, junk) /\ CanLoad(c, v, v.bp + SizeofInt, junk))
    THEN Halt(v, "fault", -1)
    ELSE [v EXCEPT !.sp = v.bp + SizeofInt,
                   !.bp = Load(c, v, v.bp, junk),
                   !.pc = Load(c, v, v.bp + SizeofInt, junk)]

(* LEV: line 625.                                                          *)
ExecLEV(c, v, junk) ==
    IF ~(CanLoad(c, v, v.bp, junk) /\ CanLoad(c, v, v.bp + SizeofInt, junk))
    THEN Halt(v, "fault", -1)
    ELSE [v EXCEPT !.sp = v.bp + 2 * SizeofInt,
                   !.bp = Load(c, v, v.bp, junk),
                   !.pc = Load(c, v, v.bp + SizeofInt, junk)]

(* ENT: line 623.  v.pc is at the operand n.                               *)
ExecENT(v, n) ==
    LET v1 == Push(v, v.bp)
    IN  [v1 EXCEPT !.bp = v1.sp, !.sp = v1.sp - SizeofInt * n,
                   !.pc = v.pc + SizeofInt]

(* JSR: line 620.  v.pc is at the operand, the address called.             *)
ExecJSR(v, target) ==
    [Push(v, v.pc + SizeofInt) EXCEPT !.pc = target]

(* One turn of the loop of lines 608-659: the instruction at pc.  junk is  *)
(* what an unwritten word holds and pr what the host's printf returns;     *)
(* prtf keeps pc[1], the word PRTF takes for its argument count (line      *)
(* 652), and ipc the address the instruction was fetched from.             *)
Exec(c, v0, junk, pr) ==
    IF ~CanLoad(c, v0, v0.pc, junk)
    THEN Halt([v0 EXCEPT !.ipc = v0.pc], "fault", -1)
    ELSE
    LET i  == Load(c, v0, v0.pc, junk)
        v  == [v0 EXCEPT !.pc = @ + SizeofInt, !.cycle = @ + 1, !.ipc = v0.pc]
        n  == Load(c, v, v.pc, junk)
        n1 == Load(c, v, v.pc + SizeofInt, junk)
        x  == Load(c, v, v.sp, junk)
        skip == [v EXCEPT !.pc = @ + SizeofInt]
    IN  IF i \in {LEA, IMM, JMP, JSR, BZ, BNZ, ENT, ADJ}
           /\ ~CanLoad(c, v, v.pc, junk) THEN Halt(v, "fault", -1)
        ELSE IF i = PRTF /\ ~CanLoad(c, v, v.pc + SizeofInt, junk)
             THEN Halt(v, "fault", -1)
        ELSE IF i \in ({SI, SC, EXIT, MALC} \cup (OR..MOD))
           /\ ~CanLoad(c, v, v.sp, junk) THEN Halt(v, "fault", -1)
        ELSE IF i \in {PSH, JSR, ENT} /\ ~CanStore(v, v.sp - SizeofInt)
             THEN Halt(v, "fault", -1)
        ELSE IF i = LEA THEN [skip EXCEPT !.a = v.bp + SizeofInt * n]
        ELSE IF i = IMM THEN [skip EXCEPT !.a = n]
        ELSE IF i = JMP THEN [v EXCEPT !.pc = n]
        ELSE IF i = JSR THEN ExecJSR(v, n)
        ELSE IF i = BZ THEN (IF v.a # 0 THEN skip ELSE [v EXCEPT !.pc = n])
        ELSE IF i = BNZ THEN (IF v.a # 0 THEN [v EXCEPT !.pc = n] ELSE skip)
        ELSE IF i = ENT THEN ExecENT(v, n)
        ELSE IF i = ADJ THEN [skip EXCEPT !.sp = @ + SizeofInt * n]
        ELSE IF i = LEV THEN ExecLEV(c, v, junk)
        ELSE IF i = LI THEN
            IF CanLoad(c, v, v.a, junk) THEN [v EXCEPT !.a = Load(c, v, v.a, junk)]
            ELSE Halt(v, "fault", -1)
        ELSE IF i = LC THEN
            IF Mapped(v, v.a) THEN [v EXCEPT !.a = LoadChar(c, v, v.a, junk)]
            ELSE Halt(v, "fault", -1)
        ELSE IF i = SI THEN
            IF CanStore(v, x) THEN [Store(v, x, v.a) EXCEPT !.sp = @ + SizeofInt]
            ELSE Halt(v, "fault", -1)
        ELSE IF i = SC THEN
            IF Mapped(v, x)
            THEN [StoreChar(c, v, x, v.a, junk) EXCEPT
                     !.sp = @ + SizeofInt, !.a = SignedChar(v.a % 256)]
            ELSE Halt(v, "fault", -1)
        ELSE IF i = PSH THEN Push(v, v.a)
        ELSE IF i \in OR..MOD THEN
            IF ArithDefined(i, v.a)
            THEN [v EXCEPT !.a = Arith(i, x, v.a), !.sp = @ + SizeofInt]
            ELSE Halt(v, "fault", -1)
        ELSE IF i = PRTF THEN
            LET fmt == v.sp + SizeofInt * (n1 - 1)
            IN  IF CanLoad(c, v, fmt, junk) /\ Mapped(v, Load(c, v, fmt, junk))
                THEN [v EXCEPT !.a = pr, !.prtf = n1]
                ELSE [Halt(v, "fault", -1) EXCEPT !.prtf = n1]
        ELSE IF i = MALC THEN
            [v EXCEPT !.a = v.brk,
                      !.brk = @ + SizeofInt * ((x + SizeofInt - 1) \div SizeofInt)]
        ELSE IF i = EXIT THEN Halt(v, "exit", x)
        ELSE IF i \in {OPEN, READ, CLOS, FREE, MSET, MCMP} THEN Halt(v, "host", -1)
        ELSE Halt(v, "unknown instruction", -1)

(* Lines 595-607: the VM before its first instruction.  argc is 1, the     *)
(* file; argv lies outside the arenas.                                     *)
VmIdle ==
    [pc |-> 0, sp |-> 0, bp |-> 0, a |-> 0, cycle |-> 0, mem |-> << >>,
     brk |-> HeapBase, prtf |-> 0, ipc |-> 0, halt |-> "", code |-> 0]

(* A start whose return address for main is the EXIT word, not the PSH.    *)
VmStartAtExit(c) ==
    LET v1 == Push(Push([VmIdle EXCEPT !.sp = StackTop, !.bp = StackTop], EXIT), PSH)
        t  == v1.sp + SizeofInt
        v2 == Push(Push(Push(v1, 1), StackTop + SizeofInt), t)
    IN  [v2 EXCEPT !.pc = c.sym[c.idmain].Val]

VmStart(c) ==
    LET v1 == Push(Push([VmIdle EXCEPT !.sp = StackTop, !.bp = StackTop], EXIT), PSH)
        t  == v1.sp
        v2 == Push(Push(Push(v1, 1), StackTop + SizeofInt), t)
    IN  [v2 EXCEPT !.pc = c.sym[c.idmain].Val]

-----------------------------------------------------------------------------------------------------------------------------------------------------
(* The run of main(): the seeding loops, one step per name; the            *)
(* declaration loop, one step per declaration head, per declarator and     *)
(* per statement of a function body; and then the VM, one step per         *)
(* instruction.                                                            *)

(* The sources compiled.                                                   *)
Programs ==
    <<"int main(){ return 2+3*4; }",
      "int main(){ int i; i=0; while(i<5) i=i+1; return i; }",
      "int main(){ char *s; s=\"hi\"; printf(\"%s\\n\", s); return 0; }",
      "enum { A, B=10, C }; int main(){ return A+B+C; }",
      "int f(int x){ return x*x; } int main(){ return f(7); }",
      "int main(){ int *p; p=malloc(8); *p=42; return *p; }",
      "int main(){ int x; int y; x = 5; y = x++; return x*10+y; }",
      "char c; int main(){ c = 3; c--; return c; }",
      "int main(){ int *p; p = (int*)80; p++; return (int)p; }",
      "int main(){ int *p; int *q; p = (int*)80; q = p - 1; return (int)q; }",
      "int main(){ int x; x = 3; 5 = 1; return 7; }",
      "int main(){ int *p; p = (int*)80; 9 = 1; return 7; }",
      "int main(){ int x; x = 3; &9; return 5; }",
      "int main(){ printf(); return 5; }",
      "int g; int f(int g, int x){ int f; f = g + x; return f; } int main(){ int printf; printf = 2; g = 1; return f(printf, g); }",
      "int f(int x){ if (x < 2) return 1; return x * f(x - 1); } int main(){ return f(3); }",
      "int f(){ int x; *(&x + 2) = 0; return 1; } int main(){ return f(); }",
      "int main(){ int *p; p = (int*)80; return 1 + 2; }",
      "int g;"
    >>

(* A cap on the instructions the VM runs.                                  *)
MaxCycle == 120

(* What an unwritten word of the stack or the heap may hold, and what the  *)
(* host's printf may return.                                               *)
Junk == {0, 77}

PrintfResults == {0, 3}

(* obs is history, which the program does not keep.  marks: the words of   *)
(* the text each statement of a function body wrote.  post: the postfix    *)
(* ++ or -- whose code the VM is in, with a, the value at a and sp when    *)
(* it started.  frames: the calls the VM is in, each with sp and bp before *)
(* its JSR, its return address and bp after its ENT; lev: the call the     *)
(* last instruction left, if it was a LEV.  pre:                           *)
(* the table before the parameter list of the function being compiled;     *)
(* declared: its parameters and locals; fdone: the function just ended.    *)
NoPost == [on |-> FALSE, end |-> 0, addr |-> 0, old |-> 0, sp |-> 0, tk |-> 0, ty |-> 0]

NoLev ==
    [on |-> FALSE, sp |-> 0, bp |-> 0, ret |-> 0, bpent |-> 0, entered |-> FALSE,
     hit |-> FALSE]

ObsInit(k) ==
    [prog |-> k, marks |-> << >>, post |-> NoPost, frames |-> << >>,
     lev |-> NoLev, pre |-> << >>, declared |-> {}, fdone |-> FALSE]

Init ==
    /\ \E k \in 1..Len(Programs), s \in {0, 1} :
          /\ cs = Start(Bytes(Programs[k]), s)
          /\ obs = ObsInit(k)
    /\ vm = VmIdle
    /\ phase = "seed"

(* Lines 477-480: one keyword.                                             *)
Keyword ==
    /\ phase = "seed"
    /\ cs.i >= Char /\ cs.i <= While
    /\ cs' = SeedKeyword(cs)
    /\ UNCHANGED <<vm, phase, obs>>

(* Lines 482-487: one library function.                                    *)
Library ==
    /\ phase = "seed"
    /\ cs.i >= OPEN /\ cs.i <= EXIT
    /\ cs' = SeedLibrary(cs)
    /\ UNCHANGED <<vm, phase, obs>>

(* Lines 488-499: void and main, and the source is read.                   *)
Source ==
    /\ phase = "seed"
    /\ cs.i = EXIT + 1
    /\ cs' = ReadSource(SeedVoidMain(cs))
    /\ phase' = "top"
    /\ UNCHANGED <<vm, obs>>

(* exit(-1) or return -1 with a diagnostic: main() is over.                *)
Settle(c, ph) == IF c.err # "" THEN "exit" ELSE ph

Outcome(c) == IF c.err # "" THEN Halt(vm, "diagnostic", -1) ELSE vm

(* Lines 500-524: a declaration starts with its base type.                 *)
TopDecl ==
    /\ phase = "top"
    /\ cs.tk # 0
    /\ cs' = BaseType(cs)
    /\ phase' = Settle(cs', "decl")
    /\ vm' = Outcome(cs')
    /\ obs' = [obs EXCEPT !.fdone = FALSE]

(* Class, Type and Val of the records of a table.                          *)
Shadowable(sym) == [k \in 1..Len(sym) |-> <<sym[k].Class, sym[k].Type, sym[k].Val>>]

(* Lines 527-533: the name of one declarator.                              *)
Declarator ==
    /\ phase = "decl"
    /\ cs.tk # Asc[";"] /\ cs.tk # Asc["}"]
    /\ cs' = DeclName(cs, cs.bt)
    /\ phase' = Settle(cs', "named")
    /\ vm' = Outcome(cs')
    /\ obs' = [obs EXCEPT !.fdone = FALSE]

(* Lines 534-571: a function, parsed up to its ENT; its body follows.      *)
Function ==
    /\ phase = "named"
    /\ cs.tk = Asc["("]
    /\ cs' = FunctionEntry(FunctionHead(cs))
    /\ phase' = Settle(cs', "body")
    /\ vm' = Outcome(cs')
    /\ obs' = [obs EXCEPT !.pre = Shadowable(FunctionHead(cs).sym),
                          !.declared = {k \in 1..Len(cs'.sym) :
                                           cs'.sym[k].Class = Loc}]

(* Lines 584-589: a global variable.                                       *)
Global ==
    /\ phase = "named"
    /\ cs.tk # Asc["("]
    /\ cs' = Comma(GlobalVar(cs))
    /\ phase' = "decl"
    /\ UNCHANGED <<vm, obs>>

(* Line 591: the token that ends the declaration is consumed.              *)
DeclEnd ==
    /\ phase = "decl"
    /\ cs.tk = Asc[";"] \/ cs.tk = Asc["}"]
    /\ cs' = next(cs)
    /\ phase' = "top"
    /\ obs' = [obs EXCEPT !.fdone = FALSE]
    /\ UNCHANGED vm

(* Line 572: one statement of the function body.                           *)
BodyStmt ==
    /\ phase = "body"
    /\ cs.tk # Asc["}"]
    /\ cs' = stmt(cs)
    /\ phase' = Settle(cs', "body")
    /\ vm' = Outcome(cs')
    /\ obs' = [obs EXCEPT !.marks = Append(@, <<Len(cs.e) + 1, Len(cs'.e)>>)]

(* Lines 573-583 and 589: the closing brace of the function.               *)
BodyEnd ==
    /\ phase = "body"
    /\ cs.tk = Asc["}"]
    /\ cs' = FunctionEnd(cs)
    /\ phase' = "decl"
    /\ obs' = [obs EXCEPT !.fdone = TRUE]
    /\ UNCHANGED vm

(* An end of the declarations that does not look at src.                   *)
TopEndRunsListed ==
    /\ phase = "top"
    /\ cs.tk = 0
    /\ IF cs.sym[cs.idmain].Val = 0
       THEN /\ cs' = Fail(cs, "main() not defined")
            /\ vm' = Halt(vm, "diagnostic", -1)
            /\ phase' = "exit"
       ELSE /\ vm' = VmStart(cs)
            /\ phase' = "run"
            /\ cs' = cs
    /\ obs' = [obs EXCEPT !.fdone = FALSE]

(* Lines 595-607: after the last declaration.                              *)
TopEnd ==
    /\ phase = "top"
    /\ cs.tk = 0
    /\ IF cs.sym[cs.idmain].Val = 0
       THEN /\ cs' = Fail(cs, "main() not defined")
            /\ vm' = Halt(vm, "diagnostic", -1)
            /\ phase' = "exit"
       ELSE IF cs.src # 0
       THEN /\ vm' = Halt(vm, "listed", 0)
            /\ phase' = "exit"
            /\ cs' = cs
       ELSE /\ vm' = VmStart(cs)
            /\ phase' = "run"
            /\ cs' = cs
    /\ obs' = [obs EXCEPT !.fdone = FALSE]

(* The index in the text of the word at addr, or 0.                        *)
TextIndex(c, addr) ==
    IF addr > TextBase /\ addr <= Addr(Len(c.e)) /\ addr % SizeofInt = 0
    THEN (addr - TextBase) \div SizeofInt ELSE 0

(* The word the text holds at addr, or -1 outside the text written.        *)
TextWord(c, addr) == IF TextIndex(c, addr) = 0 THEN -1 ELSE c.e[TextIndex(c, addr)]

(* History of one instruction, from v to v2: the postfix ++ or -- it       *)
(* starts.                                                                 *)
ObservePost(c, v, o) ==
    LET k  == TextIndex(c, v.pc)
        ps == {j \in 1..Len(c.posts) : c.posts[j].at = k}
        p  == c.posts[CHOOSE j \in ps : TRUE]
    IN  IF k # 0 /\ ps # {}
        THEN [on |-> TRUE, end |-> p.end, addr |-> v.a,
              old |-> IF c.e[k + 1] = LC THEN LoadChar(c, v, v.a, 0)
                      ELSE Load(c, v, v.a, 0),
              sp |-> v.sp, tk |-> p.tk, ty |-> p.ty]
        ELSE IF o.post.on /\ v.pc = Addr(o.post.end + 1) THEN NoPost
        ELSE o.post

(* Whether the step to v2 left something else in a saved word of frame f.  *)
Overwritten(c, v2, f) ==
    \/ Load(c, v2, f.sp - SizeofInt, 0) # f.ret
    \/ f.entered /\ Load(c, v2, f.sp - 2 * SizeofInt, 0) # f.bp

(* The calls the VM is in after the instruction i at v.pc.  A call that    *)
(* returns from a frame whose saved words were overwritten leaves its      *)
(* caller with a bp that is not the caller's: the caller is marked too.    *)
ObserveFrames(c, v, v2, o, i) ==
    LET fs == [k \in 1..Len(o.frames) |->
                  [o.frames[k] EXCEPT !.hit = @ \/ Overwritten(c, v2, o.frames[k])]]
        n  == Len(fs)
    IN  IF i = JSR
        THEN Append(fs, [on |-> TRUE, sp |-> v.sp, bp |-> v.bp,
                         ret |-> v.pc + 2 * SizeofInt, bpent |-> 0,
                         entered |-> FALSE, hit |-> FALSE])
        ELSE IF i = ENT /\ n > 0
             THEN [fs EXCEPT ![n].entered = TRUE, ![n].bpent = v2.bp]
        ELSE IF i = LEV /\ n > 1
             THEN [SubSeq(fs, 1, n - 1) EXCEPT ![n - 1].hit = @ \/ fs[n].hit]
        ELSE IF i = LEV /\ n = 1 THEN << >>
        ELSE fs

Observe(c, v, v2, o) ==
    LET i == TextWord(c, v.pc)
        n == Len(o.frames)
    IN  [o EXCEPT !.post = ObservePost(c, v, o),
                  !.frames = ObserveFrames(c, v, v2, o, i),
                  !.lev = IF i = LEV /\ n > 0 THEN o.frames[n] ELSE NoLev]

(* Lines 608-659: one instruction.                                         *)
Step ==
    /\ phase = "run"
    /\ vm.cycle < MaxCycle
    /\ \E junk \in Junk, pr \in PrintfResults : vm' = Exec(cs, vm, junk, pr)
    /\ phase' = IF vm'.halt # "" THEN "exit" ELSE "run"
    /\ obs' = Observe(cs, vm, vm', obs)
    /\ UNCHANGED cs

Next ==
    \/ Keyword
    \/ Library
    \/ Source
    \/ TopDecl
    \/ Declarator
    \/ Function
    \/ Global
    \/ DeclEnd
    \/ BodyStmt
    \/ BodyEnd
    \/ TopEnd
    \/ Step

Spec == Init /\ [][Next]_vars

-----------------------------------------------------------------------------
(* The lexer alone: the states of repeated next() on a source.             *)
LexSources ==
    <<"ab abc ab a_1 abc",
      "x = x1 + 0x1F - 017 // c\n y",
      "char c; c = 'a'; \"hi\\n\" if(x<=y) { x++; }",
      "e",
      "aipnagonpdiifbslvfgisvwxwevcptlvlwnfnzhzwsptvyeetebcwewpyvoaxadbb a b",
      "x \"abc",
      "'a",
      "y \"a\\",
      "0x"
    >>

(* What the source buffer holds after the NUL of line 494: malloc does not *)
(* clear it (line 492), so it is zeros or what an earlier use left there.  *)
(* A tail of bytes repeats the NUL before them.                            *)
LexTails == {<< >>, <<0>> \o Bytes("q"), <<0>> \o Bytes("\" r")}

LexInit ==
    /\ \E k \in 1..Len(LexSources), t \in LexTails :
          cs = Start(Bytes(LexSources[k]) \o t, 0)
    /\ vm = VmIdle
    /\ phase = "seed"
    /\ obs = ObsInit(0)

LexSource ==
    /\ phase = "seed"
    /\ cs.i = EXIT + 1
    /\ cs' = ReadSource(SeedVoidMain(cs))
    /\ phase' = "lex"
    /\ UNCHANGED <<vm, obs>>

LexToken ==
    /\ phase = "lex"
    /\ cs.tk # 0
    /\ cs' = next(cs)
    /\ UNCHANGED <<vm, phase, obs>>

LexNext == Keyword \/ Library \/ LexSource \/ LexToken

SpecLex == LexInit /\ [][LexNext]_vars

-----------------------------------------------------------------------------
(* The parser on two binary operators: the statements a op1 b op2 c; and   *)
(* a op1 (b op2 c); in the body of main, for every pair of operators.      *)

(* The characters next() reads as the operator op (lines 207-217).         *)
Spelling(op) ==
    CASE op = Lor -> "||" [] op = Lan -> "&&" [] op = Or -> "|"
      [] op = Xor -> "^"  [] op = And -> "&"  [] op = Eq -> "=="
      [] op = Ne -> "!="  [] op = Lt -> "<"   [] op = Gt -> ">"
      [] op = Le -> "<="  [] op = Ge -> ">="  [] op = Shl -> "<<"
      [] op = Shr -> ">>" [] op = Add -> "+"  [] op = Sub -> "-"
      [] op = Mul -> "*"  [] op = Div -> "/"  [] op = Mod -> "%"

(* The literals a, b, c.                                                   *)
PrecLiterals == {<<"1", "2", "3">>, <<"'a'", "0", "0x1F">>}

PrecSource(l, op1, op2) ==
    Bytes("int main(){ ") \o Bytes(l[1]) \o Bytes(" ") \o Bytes(Spelling(op1))
        \o Bytes(" ") \o Bytes(l[2]) \o Bytes(" ") \o Bytes(Spelling(op2))
        \o Bytes(" ") \o Bytes(l[3]) \o Bytes("; ")
        \o Bytes(l[1]) \o Bytes(" ") \o Bytes(Spelling(op1))
        \o Bytes(" (") \o Bytes(l[2]) \o Bytes(" ") \o Bytes(Spelling(op2))
        \o Bytes(" ") \o Bytes(l[3]) \o Bytes("); }")

PrecInit ==
    /\ \E l \in PrecLiterals, op1 \in Lor..Mod, op2 \in Lor..Mod :
          /\ cs = Start(PrecSource(l, op1, op2), 0)
          /\ obs = ObsInit(<<op1, op2>>)
    /\ vm = VmIdle
    /\ phase = "seed"

PrecNext ==
    \/ Keyword
    \/ Library
    \/ Source
    \/ TopDecl
    \/ Declarator
    \/ Function
    \/ BodyStmt
    \/ BodyEnd

SpecPrec == PrecInit /\ [][PrecNext]_vars

-----------------------------------------------------------------------------
(* The parser on pointer arithmetic: the statements l + r; and l - q; in   *)
(* the body of main, for l and q of type int* and r of type int.           *)
ScaleLefts == <<"p", "(int *)k", "*pp">>

ScaleRights == <<"k", "7", "k * 2", "*p", "-k">>

ScaleSubtrahends == <<"q", "(int *)k", "*pp", "p">>

ScaleSource(l, r, q) ==
    Bytes("int main(){ int *p; int *q; int **pp; int k; ")
        \o Bytes(ScaleLefts[l]) \o Bytes(" + ") \o Bytes(ScaleRights[r])
        \o Bytes("; ") \o Bytes(ScaleLefts[l]) \o Bytes(" - ")
        \o Bytes(ScaleSubtrahends[q]) \o Bytes("; }")

ScaleInit ==
    /\ \E l \in 1..Len(ScaleLefts), r \in 1..Len(ScaleRights),
          q \in 1..Len(ScaleSubtrahends) :
          /\ cs = Start(ScaleSource(l, r, q), 0)
          /\ obs = ObsInit(<<l, r, q>>)
    /\ vm = VmIdle
    /\ phase = "seed"

SpecScale == ScaleInit /\ [][PrecNext]_vars

-----------------------------------------------------------------------------
(* Loops: i = 0; while (c) s return i; in the body of main, for conditions *)
(* that are non-zero while i is below a limit and bodies that add one to   *)
(* i, compiled and run.                                                    *)
MaxLimit == 3

WhileConds == <<"i < ", "i != ", "0 - i + ">>

WhileBodies ==
    <<"i = i + 1;",
      "{ n = n + 1; i = i + 1; }",
      "{ n = i; if (n < 1) i = 1; else i = n + 1; }",
      "{ n = 0; while (n < 1) { n = n + 1; i = i + 1; } }">>

Digit(n) == SubSeq("0123456789", n + 1, n + 1)

WhileSource(c, b, n) ==
    Bytes("int i; int main(){ int n; i = 0; while (") \o Bytes(WhileConds[c])
        \o Bytes(Digit(n)) \o Bytes(") ") \o Bytes(WhileBodies[b])
        \o Bytes(" return i; }")

WhileInit ==
    /\ \E c \in 1..Len(WhileConds), b \in 1..Len(WhileBodies), n \in 0..MaxLimit :
          /\ cs = Start(WhileSource(c, b, n), 0)
          /\ obs = ObsInit(<<c, b, n>>)
    /\ vm = VmIdle
    /\ phase = "seed"

SpecWhile == WhileInit /\ [][Next]_vars

-----------------------------------------------------------------------------
(* Frames: a function f of n parameters and m locals, called by main with  *)
(* the arguments 1 .. n; f gives each local a value and returns a sum in   *)
(* which every parameter and local has a weight of its own.                *)
MaxParams == 3

MaxLocals == 3

FrameParams == <<"int a", "int *b", "char c", "int d">>

FrameLocals == <<"int x; ", "char *y; ", "int z; ", "int w; ">>

FrameSets == <<"x = 1; ", "y = (char *)2; ", "z = 3; ", "w = 4; ">>

FrameTerms ==
    <<" + a", " + (int)b * 5", " + c * 25", " + d * 125",
      " + x * 625", " + (int)y * 3125", " + z * 15625", " + w * 78125">>

FrameArgs == <<"1", "(int *)2", "3", "4">>

(* The strings t[1] .. t[n], with sep between them.                        *)
RECURSIVE Joined(_, _, _)
Joined(t, n, sep) ==
    IF n = 0 THEN << >>
    ELSE IF n = 1 THEN Bytes(t[1])
    ELSE Joined(t, n - 1, sep) \o Bytes(sep) \o Bytes(t[n])

FrameSource(n, m) ==
    Bytes("int g; int f(") \o Joined(FrameParams, n, ", ") \o Bytes("){ ")
        \o Joined(FrameLocals, m, "") \o Joined(FrameSets, m, "")
        \o Bytes("return 0") \o Joined(FrameTerms, n, "")
        \o Joined([j \in 1..m |-> FrameTerms[Len(FrameParams) + j]], m, "")
        \o Bytes("; } int main(){ return f(") \o Joined(FrameArgs, n, ", ")
        \o Bytes("); }")

(* What main returns for n parameters and m locals.                        *)
RECURSIVE FrameSum(_, _)
FrameSum(n, m) ==
    IF m > 0 THEN m * (5 ^ (Len(FrameParams) + m - 1)) + FrameSum(n, m - 1)
    ELSE IF n > 0 THEN n * (5 ^ (n - 1)) + FrameSum(n - 1, 0)
    ELSE 0

FrameInit ==
    /\ \E n \in 0..MaxParams, m \in 0..MaxLocals :
          /\ cs = Start(FrameSource(n, m), 0)
          /\ obs = ObsInit(<<n, m>>)
    /\ vm = VmIdle
    /\ phase = "seed"

SpecFrame == FrameInit /\ [][Next]_vars

-----------------------------------------------------------------------------
(* The properties.                                                         *)

(* The value of the lvalue at addr, of type t.                             *)
ValueAt(addr, t) ==
    IF t = CHAR THEN LoadChar(cs, vm, addr, 0) ELSE Load(cs, vm, addr, 0)

(* The VM has just run the code of a postfix ++ or --.                     *)
PostDone == phase \in {"run", "exit"} /\ obs.post.on /\ vm.halt = ""
            /\ vm.pc = Addr(obs.post.end + 1)

(* C1: when the VM has run the code emitted for x++ (x--), x holds its old *)
(* value plus (minus) the step, sizeof(int) for a type above PTR and 1     *)
(* otherwise, the accumulator holds the old value, and sp is what it was   *)
(* before the expression.                                                  *)
C1_PostfixStoresBack ==
    PostDone =>
        /\ ValueAt(obs.post.addr, obs.post.ty) =
               IF obs.post.tk = Inc THEN obs.post.old + StepOf(obs.post.ty)
               ELSE obs.post.old - StepOf(obs.post.ty)
        /\ vm.a = obs.post.old
        /\ vm.sp = obs.post.sp

(* What the code of lines 375-381 does instead: x is left as it was, the   *)
(* accumulator holds the old value, and the address pushed for the store   *)
(* stays on the stack.                                                     *)
C1_PostfixLeavesOperand ==
    PostDone =>
        /\ ValueAt(obs.post.addr, obs.post.ty) = obs.post.old
        /\ vm.a = obs.post.old
        /\ vm.sp = obs.post.sp - SizeofInt

C1_PostfixRan == PostDone /\ obs.post.tk = Dec /\ obs.post.ty = CHAR

(* The words e[from] .. e[to] a binary - wrote after its right operand.    *)
SubTail(r) == SubSeq(cs.e, r.from, r.to)

(* C2: a binary - whose left operand has a type above PTR and whose right  *)
(* operand is an integer, a lone number included, emits PSH, IMM,          *)
(* sizeof(int), MUL, SUB and leaves the type of the left operand; SUB,     *)
(* PSH, IMM, sizeof(int), DIV with type INT is emitted only when both      *)
(* operands have the same pointer type.                                    *)
C2_PointerMinusInt ==
    \A j \in 1..Len(cs.subs) :
        LET r == cs.subs[j]
        IN  /\ (r.lt > PTR /\ (r.rnum \/ r.rt <= INT)) =>
                   /\ SubTail(r) = <<PSH, IMM, SizeofInt, MUL, SUB>>
                   /\ r.ty = r.lt
            /\ SubTail(r) = <<SUB, PSH, IMM, SizeofInt, DIV>> =>
                   r.lt > PTR /\ ~r.rnum /\ r.rt = r.lt /\ r.ty = INT

(* C3: after a literal primary, ty is INT for a number and a pointer type  *)
(* for a string, whatever ty was before.                                   *)
C3_LiteralType ==
    \A j \in 1..Len(cs.lits) :
        /\ cs.lits[j].kind = "num" => cs.lits[j].ty = INT
        /\ cs.lits[j].kind = "str" => cs.lits[j].ty >= PTR

(* C4: when the code of the left operand of = does not end in an LC or LI  *)
(* opcode, expr reports bad lvalue in assignment, the exit code is -1,     *)
(* and no word of the text is rewritten.                                   *)
C4_AssignNeedsLvalue ==
    \A j \in 1..Len(cs.asgs) :
        LET r == cs.asgs[j]
        IN  ~(r.kind = "op" /\ r.word \in {LC, LI}) =>
                /\ cs.err = "bad lvalue in assignment"
                /\ vm.halt = "diagnostic" /\ vm.code = -1
                /\ r.at >= 1 => cs.e[r.at] = r.word

(* The compilation is over and gave no diagnostic.                         *)
Compiled == cs.err = "" /\ phase \in {"run", "exit"}

(* C5: in the text of a compilation without diagnostic every opcode <= ADJ *)
(* is followed by its own operand word, and the VM never fetches an        *)
(* operand word as an opcode.                                              *)
C5_OperandAdjacency ==
    Compiled =>
        /\ \A k \in 1..Len(cs.e) :
              (cs.ek[k] = "op" /\ cs.e[k] <= ADJ) =>
                  k < Len(cs.e) /\ cs.ek[k + 1] = "arg"
        /\ TextIndex(cs, vm.ipc) # 0 => cs.ek[TextIndex(cs, vm.ipc)] = "op"

(* The calls of printf the compiler emitted.                               *)
PrintfCalls ==
    {j \in 1..Len(cs.calls) : cs.calls[j].class = Sys /\ cs.calls[j].val = PRTF}

(* C6: every PRTF emitted for a call of printf is followed by ADJ and the  *)
(* argument count of the call, zero included, and the word the VM reads    *)
(* at pc[1] while it executes PRTF is that count.                          *)
C6_PrintfAdjusted ==
    \A j \in PrintfCalls :
        LET r == cs.calls[j]
        IN  /\ r.at + 2 <= Len(cs.e)
            /\ cs.e[r.at] = PRTF /\ cs.e[r.at + 1] = ADJ /\ cs.e[r.at + 2] = r.n
            /\ (phase \in {"run", "exit"} /\ vm.ipc = Addr(r.at)) => vm.prtf = r.n

(* The word e[i] as a statement whose code starts at e[base] holds it: the *)
(* operand of a jump counts from the start of the statement.               *)
Relative(i, base) ==
    IF i > 1 /\ cs.ek[i] = "arg" /\ cs.ek[i - 1] = "op"
       /\ cs.e[i - 1] \in {JMP, BZ, BNZ}
    THEN cs.e[i] - Addr(base)
    ELSE cs.e[i]

(* The code of the k-th statement of the body.                             *)
StmtCode(k) ==
    [i \in 1..(obs.marks[k][2] - obs.marks[k][1] + 1) |->
        Relative(obs.marks[k][1] + i - 1, obs.marks[k][1])]

(* Both statements of the body are compiled.                               *)
BothParsed == Len(obs.marks) = 2 /\ cs.err = ""

(* The precedence of a binary operator: the operators of one handler      *)
(* level of lines 347-373 share it.                                        *)
Level(op) ==
    CASE op = Lor -> 1 [] op = Lan -> 2 [] op = Or -> 3 [] op = Xor -> 4
      [] op = And -> 5 [] op \in {Eq, Ne} -> 6 [] op \in {Lt, Gt, Le, Ge} -> 7
      [] op \in {Shl, Shr} -> 8 [] op \in {Add, Sub} -> 9
      [] op \in {Mul, Div, Mod} -> 10

(* C7 as stated: for literals a, b, c and binary operators whose token     *)
(* values satisfy op1 < op2, a op1 b op2 c and a op1 (b op2 c) give the    *)
(* same code.                                                              *)
C7_TokenValuePrecedence ==
    (BothParsed /\ obs.prog[1] < obs.prog[2]) => StmtCode(1) = StmtCode(2)

(* C7, with the precedence the handlers implement: for literals a, b, c    *)
(* and binary operators op1 of lower precedence than op2, a op1 b op2 c    *)
(* and a op1 (b op2 c) give the same code.                                 *)
C7_PrecedenceClimbing ==
    (BothParsed /\ Level(obs.prog[1]) < Level(obs.prog[2])) =>
        StmtCode(1) = StmtCode(2)

(* a || b * c is compiled in both forms.                                   *)
C7_LorMulParsed == BothParsed /\ obs.prog = <<Lor, Mul>> /\ Len(StmtCode(1)) > 8

(* The last instruction was the LEV of a call that had run its ENT and     *)
(* whose saved words were not overwritten.                                 *)
Returned == obs.lev.on /\ obs.lev.entered /\ ~obs.lev.hit /\ vm.halt = ""

(* C8: after the LEV of a call (JSR, ENT, a body that leaves the two saved *)
(* words alone, LEV) sp is bp after ENT plus the two words popped, which   *)
(* is sp before the JSR, bp is the bp of the caller and pc is the address  *)
(* after the operand of the JSR.                                           *)
C8_FrameDiscipline ==
    Returned =>
        /\ vm.sp = obs.lev.bpent + 2 * SizeofInt
        /\ vm.sp = obs.lev.sp
        /\ vm.bp = obs.lev.bp
        /\ vm.pc = obs.lev.ret

(* A call returns into a call: the recursion of the last program.          *)
C8_NestedReturn == Returned /\ Len(obs.frames) > 0 /\ vm.bp # StackTop

(* What an identifier k had before the parameter list: new identifiers     *)
(* come from the zeroed arena.                                             *)
Before(k) == IF k <= Len(obs.pre) THEN obs.pre[k] ELSE <<0, 0, 0>>

(* C9: when a function definition is finished no record has Class Loc,     *)
(* and every parameter and local of the function has the Class, Type and   *)
(* Val it had before the parameter list.                                   *)
C9_ShadowRestoration ==
    obs.fdone =>
        /\ \A k \in 1..Len(cs.sym) : cs.sym[k].Class # Loc
        /\ \A k \in obs.declared :
              <<cs.sym[k].Class, cs.sym[k].Type, cs.sym[k].Val>> = Before(k)

(* A function that shadows a global, a function and a new name is done.    *)
C9_ShadowedRestored ==
    /\ obs.fdone
    /\ \E k \in obs.declared : Before(k)[1] = Glo
    /\ \E k \in obs.declared : Before(k)[1] = Fun
    /\ \E k \in obs.declared : Before(k)[1] = 0

(* The lexeme of the record k: the identifier characters from its Name.    *)
Lexeme(k) == SubSeq(cs.chars, cs.sym[k].Name, IdEnd(cs, cs.sym[k].Name) - 1)

(* C10: the table holds at most one record per lexeme, and the record      *)
(* next() gives for an identifier, found or appended, has the lexeme       *)
(* scanned.                                                                *)
C10_SymbolUniqueness ==
    /\ \A j, k \in 1..Len(cs.sym) : Lexeme(j) = Lexeme(k) => j = k
    /\ cs.isid => Lexeme(cs.id) = SubSeq(cs.chars, cs.pp, cs.p - 1)

(* The two words main() plants on the stack for main's return (lines       *)
(* 600-601): PSH below EXIT.                                               *)
TrampolinePSH == StackTop - 2 * SizeofInt

TrampolineEXIT == StackTop - SizeofInt

(* The next instruction is a LEV that no call of the program is in: main   *)
(* returns.                                                                *)
MainLeaves ==
    /\ phase = "run" /\ obs.frames = << >>
    /\ TextWord(cs, vm.pc) = LEV

(* One step of the return of main: its LEV goes to the planted PSH with    *)
(* the accumulator as it was; the PSH pushes the accumulator and goes to   *)
(* the planted EXIT; the EXIT halts with the accumulator as exit code.     *)
MainReturnStep ==
    /\ (MainLeaves /\ vm'.halt = "") =>
           /\ vm'.pc = TrampolinePSH
           /\ Load(cs, vm', TrampolinePSH, 0) = PSH
           /\ Load(cs, vm', TrampolineEXIT, 0) = EXIT
           /\ vm'.a = vm.a
    /\ (phase = "run" /\ vm.pc = TrampolinePSH) =>
           /\ vm'.ipc = TrampolinePSH /\ vm'.halt = ""
           /\ vm'.pc = TrampolineEXIT
           /\ vm'.a = vm.a
           /\ Load(cs, vm', vm'.sp, 0) = vm.a
    /\ (phase = "run" /\ vm.pc = TrampolineEXIT) =>
           /\ vm'.ipc = TrampolineEXIT
           /\ vm'.halt = "exit" /\ vm'.code = vm.a
           /\ phase' = "exit"

(* C11: when main returns with the accumulator v, the VM executes the PSH  *)
(* and the EXIT planted on the stack, in that order, and halts with exit   *)
(* code v; no instruction of the text runs after the LEV of main.          *)
C11_MainReturnsThroughTrampoline == [][MainReturnStep]_vars

(* main returned 14 through the planted words: the first program.          *)
C11_MainReturned ==
    /\ phase = "exit" /\ vm.halt = "exit" /\ vm.ipc = TrampolineEXIT
    /\ obs.prog = 1 /\ vm.code = 14

(* main() is over and printed no diagnostic; main() not defined is one of  *)
(* the diagnostics (line 595).                                             *)
ListedValid == phase = "exit" /\ cs.err = ""

(* C12: with -s, a program that gives no diagnostic makes main() return 0  *)
(* after the declarations, and the VM executes no instruction.             *)
C12_ListingSkipsExecution ==
    cs.src # 0 =>
        /\ phase # "run" /\ vm.cycle = 0
        /\ ListedValid => (vm.halt = "listed" /\ vm.code = 0)

(* The loop program was listed with -s.                                    *)
C12_LoopListed == cs.src # 0 /\ ListedValid /\ obs.prog = 2 /\ Len(cs.e) > 20

(* The last n words of a code sequence.                                    *)
CodeTail(code, n) ==
    IF Len(code) < n THEN << >> ELSE SubSeq(code, Len(code) - n + 1, Len(code))

(* C13: for p of type int* and k of type int the code of p + k ends with   *)
(* PSH, IMM, sizeof(int), MUL, ADD: k is multiplied before the ADD; for p  *)
(* and q of type int* the code of p - q ends with SUB, PSH, IMM,           *)
(* sizeof(int), DIV, and the type of the result is INT.                    *)
C13_PointerScaling ==
    BothParsed =>
        /\ CodeTail(StmtCode(1), 5) = <<PSH, IMM, SizeofInt, MUL, ADD>>
        /\ CodeTail(StmtCode(2), 5) = <<SUB, PSH, IMM, SizeofInt, DIV>>
        /\ Len(cs.subs) = 1 /\ cs.subs[1].ty = INT
        /\ cs.ty = INT

(* The third left operand, the third right operand and the second         *)
(* subtrahend are compiled.                                                *)
C13_ScaledBothWays == BothParsed /\ obs.prog = <<3, 3, 2>> /\ obs.fdone

(* The loop is the second statement of the body: its code is e[LoopFrom]   *)
(* .. e[LoopTo], and its BZ is the first BZ of that code.                  *)
LoopFrom == obs.marks[2][1]

LoopTo == obs.marks[2][2]

LoopBZ ==
    CHOOSE k \in LoopFrom..LoopTo :
        /\ cs.ek[k] = "op" /\ cs.e[k] = BZ
        /\ \A j \in LoopFrom..(k - 1) : ~(cs.ek[j] = "op" /\ cs.e[j] = BZ)

(* The program is compiled and the VM runs or has run it.                  *)
LoopRuns == phase \in {"run", "exit"} /\ cs.err = "" /\ Len(obs.marks) = 3

(* C14: the code of while (c) s ends with a JMP to the address saved       *)
(* before c, and its BZ holds the address of the word after that JMP;      *)
(* the VM goes from the JMP to the loop top, from the BZ into s when c is  *)
(* non-zero and past the JMP when c is zero; so s runs as often as c was   *)
(* non-zero, and the program exits with i at the limit.                    *)
C14_WhileLoop ==
    LoopRuns =>
        /\ cs.ek[LoopTo - 1] = "op" /\ cs.e[LoopTo - 1] = JMP
        /\ cs.e[LoopTo] = Addr(LoopFrom)
        /\ cs.e[LoopBZ + 1] = Addr(LoopTo + 1)
        /\ vm.ipc = Addr(LoopTo - 1) => vm.pc = Addr(LoopFrom)
        /\ vm.ipc = Addr(LoopBZ) =>
               vm.pc = IF vm.a # 0 THEN Addr(LoopBZ + 2) ELSE Addr(LoopTo + 1)
        /\ vm.halt # "" => (vm.halt = "exit" /\ vm.code = obs.prog[3])

(* A loop with a loop in its body ran twice and the program ended.         *)
C14_LoopRanTwice ==
    LoopRuns /\ vm.halt = "exit" /\ obs.prog = <<2, 4, 2>> /\ vm.code = 2

(* loc - Val: the word of the frame, counted from bp, that the code of a   *)
(* parameter or local k addresses (line 269).                              *)
FrameOffset(k) == cs.loc - cs.sym[k].Val

(* The place of k among the parameters and locals, in the order of their   *)
(* declaration: the names are new, so the table has them in that order.    *)
FrameRank(k) == Cardinality({j \in obs.declared : j <= k})

(* The body of f is being compiled.                                        *)
InBodyOfF == phase = "body" /\ obs.declared # {} /\ cs.err = ""

(* The VM has just run the ENT of f, the first word of the text.           *)
EnteredF ==
    /\ phase = "run" /\ vm.ipc = Addr(1) /\ vm.halt = ""
    /\ obs.frames # << >>

(* C15: in a function of n parameters and m locals called with n           *)
(* arguments, the frame words of the parameters and locals are pairwise    *)
(* distinct; the word of the i-th parameter holds the i-th argument; the   *)
(* word of every local is one of the m words ENT m reserves, from sp       *)
(* after ENT up to the word below bp, and never the saved bp or the        *)
(* return address.                                                         *)
C15_FrameLayout ==
    /\ InBodyOfF =>
          /\ Cardinality(obs.declared) = obs.prog[1] + obs.prog[2]
          /\ cs.e[1] = ENT /\ cs.e[2] = obs.prog[2]
          /\ \A j, k \in obs.declared :
                 FrameOffset(j) = FrameOffset(k) => j = k
          /\ \A k \in obs.declared :
                 IF FrameRank(k) <= obs.prog[1]
                 THEN FrameOffset(k) = obs.prog[1] + 2 - FrameRank(k)
                 ELSE FrameOffset(k) \in (0 - obs.prog[2])..(0 - 1)
    /\ EnteredF =>
          /\ vm.sp = vm.bp - SizeofInt * obs.prog[2]
          /\ \A i \in 1..obs.prog[1] :
                 Load(cs, vm, vm.bp + SizeofInt * (obs.prog[1] + 2 - i), 0) = i
    /\ (phase = "exit" /\ cs.err = "") =>
          (vm.halt = "exit" /\ vm.code = FrameSum(obs.prog[1], obs.prog[2]))

(* f of three parameters and three locals returned to main, and main       *)
(* returned the sum.                                                       *)
C15_ThreeAndThree ==
    /\ phase = "exit" /\ vm.halt = "exit" /\ obs.prog = <<3, 3>>
    /\ vm.code = FrameSum(3, 3) /\ vm.code > 15625

(* The NUL of line 494, which ends the source: the first after the NUL of  *)
(* the keyword string.                                                     *)
SourceNul ==
    CHOOSE i \in (Len(Bytes(KeywordText)) + 2)..Len(cs.chars) :
        /\ cs.chars[i] = 0
        /\ \A j \in (Len(Bytes(KeywordText)) + 2)..(i - 1) : cs.chars[j] # 0

(* C16: next() never moves p past the NUL that ends the source, also when  *)
(* the source ends inside a string or character literal or after a         *)
(* backslash, and when next() returns tk = 0 it is that NUL it read.       *)
C16_CursorStopsAtNul ==
    phase = "lex" =>
        /\ cs.p <= SourceNul
        /\ cs.tk = 0 => cs.p = SourceNul

=============================================================================
